---- MODULE Spec2Model ----
(***************************************************************************)
(* A model of VideoServer (src/video_server.py): the TCP ingest listener   *)
(* (start_tcp_server), one handle_client thread per accepted connection,   *)
(* the /video_feed generators, the /status query and stop().               *)
(*                                                                         *)
(* Threads interleave at every blocking call and at every access to the    *)
(* shared fields (current_frame, frame_lock, running, server_socket).      *)
(* Thread-local computation between two such points is folded into the    *)
(* step that precedes it.                                                  *)
(***************************************************************************)
EXTENDS Integers, Sequences, FiniteSets, TLC

\* ---------------------------------------------------------------- bounds
\* Frames a VideoClient captures and sends during a run.
MaxFrames == 3
\* Ingest connections the listener accepts during a run.
MaxConns == 1
\* /video_feed requests served during a run.
MaxViewers == 1

\* ------------------------------------------------------ program constants
\* VideoServer(host, port=8080, web_port=5000)
port == 8080
web_port == 5000
\* client_socket.recv(4): the length field
HeaderLen == 4
\* client_socket.recv(min(frame_size - len(frame_data), 4096))
RecvChunk == 4096

Min(a, b) == IF a < b THEN a ELSE b

\* ------------------------------------------------------------------ codec
\* self.current_frame = None
None == <<>>

\* The first byte of an encoded image (a JPEG starts 0xFF); data that does
\* not start with it does not decode.
Magic == 255

\* cv2.imdecode(np.frombuffer(frame_data, np.uint8), cv2.IMREAD_COLOR): the
\* decoded image (here its pixels), or None when the data holds no image.
\* An image is never the bytes it was decoded from, and the codec is lossy:
\* two byte strings may decode to the same image.  A prefix of an encoded
\* image that still holds a pixel decodes too (to a shorter image).
Decode(data) ==
    IF Len(data) >= 2 /\ data[1] = Magic
    THEN [i \in 1..(Len(data) - 1) |-> data[i + 1] \div 2]
    ELSE None

\* cv2.imencode('.jpg', image, ...)[1].tobytes()
Encode(image) == <<Magic>> \o [i \in 1..Len(image) |-> 2 * image[i]]

\* placeholder = np.zeros((480, 640, 3)) with the text 'No Video Stream'
PlaceholderImage == <<0>>
Placeholder == Encode(PlaceholderImage)

\* A faulty ChunkFor: the else branch lost, the frame encoded whatever
\* it is.
ChunkForNoPlaceholder(frame) == Encode(frame)

\* The body of the multipart chunk generate() yields for the frame it reads.
ChunkFor(frame) ==
    IF frame # None THEN Encode(frame) ELSE Placeholder

\* struct.unpack('!I', size_data)[0]: 4 bytes, big-endian
Unpack(b) == b[1] * 16777216 + b[2] * 65536 + b[3] * 256 + b[4]

\* struct.pack('!I', frame_size) (VideoClient.send_frame)
Pack(n) == << (n \div 16777216) % 256, (n \div 65536) % 256,
              (n \div 256) % 256, n % 256 >>

\* One framed message as VideoClient.send_frame puts it on the wire.
Msg(payload) == Pack(Len(payload)) \o payload

\* --------------------------------------------------------------- inputs
\* Payloads a producer may frame.
PayA == <<Magic, 2>>        \* decodes; re-encoding gives the same bytes
PayB == <<Magic, 5, 2>>     \* decodes; re-encoding gives other bytes
PayBad == <<0>>             \* does not decode

\* The message sequences a producer may intend to send on one connection.
Sent == { <<PayA, PayB>>, <<PayBad, PayA>> }

\* The payloads framed whole in some stream.
FramedPayloads == { s[i] : s \in Sent, i \in 1..2 }

RECURSIVE Stream(_)
Stream(msgs) ==
    IF msgs = <<>> THEN <<>> ELSE Msg(Head(msgs)) \o Stream(Tail(msgs))

\* A length field of 2^31 - 1 and the first bytes of a payload.
Oversize == <<127, 255, 255, 255>> \o PayA

\* The byte streams a producer may intend to send on one connection.  The
\* peer may close at any point of the stream (the Eof steps), so every
\* prefix of these is covered as well.
Scripts == { Stream(s) : s \in Sent } \cup { Oversize }

\* ---------------------------------------------------------------- state
VARIABLES
    running,        \* self.running
    server_socket,  \* self.server_socket: "None", "open", "closed"
    current_frame,  \* self.current_frame: None or a decoded image
    lastPayload,    \* history: the payload of the frame current_frame holds
    lastWriter,     \* history: the connection whose handler assigned it
    frame_lock,     \* self.frame_lock: who holds it
    tpc,            \* start_tcp_server's position
    spc,            \* stop()'s position
    hpc,            \* handle_client's position, per connection
    script,         \* the bytes the connection's peer intends to send
    pos,            \* how many of them handle_client has received
    eof,            \* the stream has ended: recv returns b''
    frame_size,     \* handle_client's frame_size
    frame_data,     \* handle_client's frame_data
    hexit,          \* how handle_client left its loop
    incomplete,     \* handle_client printed "Incomplete frame received"
    wrote,          \* handle_client assigned current_frame a frame
    written,        \* history: the frames handle_client assigned, in order
    vpc,            \* generate()'s position, per /video_feed request
    chunk,          \* the chunk body generate() yielded, being written
    \* A VideoClient (src/video_client.py), a process of its own:
    cpc,            \* stream_video's position
    socket,         \* self.socket: "None", "created", "open", "closed"
    cap,            \* self.cap: "None", "failed", "opened", "released"
    client_running, \* VideoClient's self.running
    frame_count,    \* stream_video's frame_count
    send_data,      \* send_frame's frame_data, the payload being sent
    sent,           \* the bytes the client has put on its connection
    send_failed,    \* history: a send_frame returned False
    stopped         \* history: VideoClient.stop() has run

vars == << running, server_socket, current_frame, lastPayload, lastWriter,
           frame_lock, tpc, spc,
           hpc, script, pos, eof, frame_size, frame_data, hexit,
           incomplete, wrote, written, vpc, chunk,
           cpc, socket, cap, client_running, frame_count, send_data, sent,
           send_failed, stopped >>

storeVars == << current_frame, lastPayload, lastWriter >>
listenerVars == << running, server_socket, tpc, spc >>
handlerVars == << hpc, script, pos, eof, frame_size, frame_data, hexit,
                  incomplete, wrote, written >>
viewerVars == << vpc, chunk >>
clientVars == << cpc, socket, cap, client_running, frame_count, send_data,
                sent, send_failed, stopped >>
serverVars == << storeVars, listenerVars, frame_lock, handlerVars,
                viewerVars >>

\* Holders of frame_lock.
Free == <<"free", 0>>
H(h) == <<"handler", h>>
V(v) == <<"viewer", v>>

NoChunk == <<>>
NoPayload == <<>>
\* No handler has assigned what current_frame holds (it holds None).
NoWriter == 0

\* The connections and the /video_feed requests of the run.
Conns == DOMAIN hpc
Viewers == DOMAIN vpc

\* The bytes of the connection not yet received.
Wire(h) == SubSeq(script[h], pos[h] + 1, Len(script[h]))

InitOn(C, W) ==
    /\ running = FALSE
    /\ server_socket = "None"
    /\ current_frame = None
    /\ lastPayload = NoPayload
    /\ lastWriter = NoWriter
    /\ frame_lock = Free
    /\ tpc = "create"
    /\ spc = "idle"
    /\ hpc = [h \in C |-> "unborn"]
    /\ script = [h \in C |-> <<>>]
    /\ pos = [h \in C |-> 0]
    /\ eof = [h \in C |-> FALSE]
    /\ frame_size = [h \in C |-> 0]
    /\ frame_data = [h \in C |-> <<>>]
    /\ hexit = [h \in C |-> "none"]
    /\ incomplete = [h \in C |-> FALSE]
    /\ wrote = [h \in C |-> FALSE]
    /\ written = [h \in C |-> <<>>]
    /\ vpc = [v \in W |-> "idle"]
    /\ chunk = [v \in W |-> NoChunk]
    /\ cpc = "connect"
    /\ socket = "None"
    /\ cap = "None"
    /\ client_running = FALSE
    /\ frame_count = 0
    /\ send_data = <<>>
    /\ sent = <<>>
    /\ send_failed = FALSE
    /\ stopped = FALSE

Init == InitOn(1..MaxConns, 1..MaxViewers)

\* ------------------------------------------------------- start_tcp_server
\* self.server_socket = socket.socket(...); setsockopt(...)
TcpCreate ==
    /\ tpc = "create"
    /\ server_socket' = "open"
    /\ tpc' = "bind"
    /\ UNCHANGED << running, spc, storeVars, frame_lock, handlerVars,
                    viewerVars >>
    /\ UNCHANGED clientVars

\* bind(); listen(5).  Either raises when the address is taken, and both
\* raise on a socket stop() has closed: except Exception, then finally
\* closes the socket.
TcpBind ==
    /\ tpc = "bind"
    /\ \/ /\ server_socket = "open"
          /\ tpc' = "setrun"
          /\ UNCHANGED server_socket
       \/ /\ tpc' = "done"
          /\ server_socket' = "closed"
    /\ UNCHANGED << running, spc, storeVars, frame_lock, handlerVars,
                    viewerVars >>
    /\ UNCHANGED clientVars

\* self.running = True
TcpSetRunning ==
    /\ tpc = "setrun"
    /\ running' = TRUE
    /\ tpc' = "loop"
    /\ UNCHANGED << server_socket, spc, storeVars, frame_lock,
                    handlerVars, viewerVars >>
    /\ UNCHANGED clientVars

\* while self.running: ... ; leaving the loop runs finally, which closes
\* the socket.
TcpLoop ==
    /\ tpc = "loop"
    /\ IF running
       THEN tpc' = "accept" /\ UNCHANGED server_socket
       ELSE tpc' = "done" /\ server_socket' = "closed"
    /\ UNCHANGED << running, spc, storeVars, frame_lock, handlerVars,
                    viewerVars >>
    /\ UNCHANGED clientVars

\* The connection the next accept() returns gets the lowest free slot.
NextConn(h) == hpc[h] = "unborn" /\ \A g \in Conns : g < h => hpc[g] # "unborn"

\* client_socket, client_address = self.server_socket.accept(), and the
\* handler thread started for it.
TcpAccept(h, s) ==
    /\ tpc = "accept"
    /\ server_socket = "open"
    /\ NextConn(h)
    /\ hpc' = [hpc EXCEPT ![h] = "loop"]
    /\ script' = [script EXCEPT ![h] = s]
    /\ tpc' = "loop"
    /\ UNCHANGED << running, server_socket, spc, storeVars, frame_lock,
                    pos, eof, frame_size, frame_data, hexit, incomplete,
                    wrote, written, viewerVars >>
    /\ UNCHANGED clientVars

\* accept() on the socket stop() closed raises socket.error: break, finally.
TcpAcceptError ==
    /\ tpc = "accept"
    /\ server_socket = "closed"
    /\ tpc' = "done"
    /\ UNCHANGED << running, server_socket, spc, storeVars, frame_lock,
                    handlerVars, viewerVars >>
    /\ UNCHANGED clientVars

\* ------------------------------------------------------------------ stop
\* self.running = False
StopSetRunning ==
    /\ spc = "idle"
    /\ running' = FALSE
    /\ spc' = "close"
    /\ UNCHANGED << server_socket, tpc, storeVars, frame_lock,
                    handlerVars, viewerVars >>
    /\ UNCHANGED clientVars

\* if self.server_socket: self.server_socket.close()
StopClose ==
    /\ spc = "close"
    /\ server_socket' = IF server_socket = "None" THEN "None" ELSE "closed"
    /\ spc' = "done"
    /\ UNCHANGED << running, tpc, storeVars, frame_lock, handlerVars,
                    viewerVars >>
    /\ UNCHANGED clientVars

\* ---------------------------------------------------------- handle_client
\* A faulty Leave: the finally block closes the socket and no more (the
\* clearing of current_frame lost).
LeaveNoClear(h, how) ==
    /\ hpc' = [hpc EXCEPT ![h] = "done"]
    /\ hexit' = [hexit EXCEPT ![h] = how]
    /\ frame_size' = [frame_size EXCEPT ![h] = 0]
    /\ frame_data' = [frame_data EXCEPT ![h] = <<>>]
    /\ script' = [script EXCEPT ![h] = <<>>]
    /\ pos' = [pos EXCEPT ![h] = 0]
    /\ eof' = [eof EXCEPT ![h] = FALSE]

\* Leaving the try block, by break, by the loop condition or by an
\* exception: finally closes client_socket and goes for the lock.  The
\* connection's buffers are gone with the socket.
Leave(h, how) ==
    /\ hpc' = [hpc EXCEPT ![h] = "clock"]
    /\ hexit' = [hexit EXCEPT ![h] = how]
    /\ frame_size' = [frame_size EXCEPT ![h] = 0]
    /\ frame_data' = [frame_data EXCEPT ![h] = <<>>]
    /\ script' = [script EXCEPT ![h] = <<>>]
    /\ pos' = [pos EXCEPT ![h] = 0]
    /\ eof' = [eof EXCEPT ![h] = FALSE]

\* while self.running:
HandlerLoop(h) ==
    /\ hpc[h] = "loop"
    /\ IF running
       THEN /\ hpc' = [hpc EXCEPT ![h] = "hdr"]
            /\ UNCHANGED << hexit, frame_size, frame_data, script, pos, eof >>
       ELSE Leave(h, "stopped")
    /\ UNCHANGED << listenerVars, storeVars, frame_lock, incomplete,
                    wrote, written, viewerVars >>
    /\ UNCHANGED clientVars

\* A faulty AfterPayload: len(frame_data) <= frame_size for ==.
AfterPayloadLe(h, size, data) ==
    IF Len(data) <= size /\ Decode(data) # None
    THEN /\ hpc' = [hpc EXCEPT ![h] = "wlock"]
         /\ frame_size' = [frame_size EXCEPT ![h] = size]
         /\ frame_data' = [frame_data EXCEPT ![h] = data]
         /\ UNCHANGED incomplete
    ELSE /\ hpc' = [hpc EXCEPT ![h] = "loop"]
         /\ frame_size' = [frame_size EXCEPT ![h] = 0]
         /\ frame_data' = [frame_data EXCEPT ![h] = <<>>]
         /\ UNCHANGED incomplete

\* A faulty AfterPayload: a payload that took more than two bytes is taken
\* for undecodable and skipped.
AfterPayloadDropsLong(h, size, data) ==
    IF Len(data) = size
    THEN IF Decode(data) # None /\ Len(data) <= 2
         THEN /\ hpc' = [hpc EXCEPT ![h] = "wlock"]
              /\ frame_size' = [frame_size EXCEPT ![h] = size]
              /\ frame_data' = [frame_data EXCEPT ![h] = data]
              /\ UNCHANGED incomplete
         ELSE /\ hpc' = [hpc EXCEPT ![h] = "loop"]
              /\ frame_size' = [frame_size EXCEPT ![h] = 0]
              /\ frame_data' = [frame_data EXCEPT ![h] = <<>>]
              /\ UNCHANGED incomplete
    ELSE /\ hpc' = [hpc EXCEPT ![h] = "loop"]
         /\ frame_size' = [frame_size EXCEPT ![h] = 0]
         /\ frame_data' = [frame_data EXCEPT ![h] = <<>>]
         /\ incomplete' = [incomplete EXCEPT ![h] = TRUE]

\* A faulty AfterPayload: a payload that does not decode ends the handler
\* (the inner try/except lost, the failure taken for a fatal one).
AfterPayloadDecodeFatal(h, size, data) ==
    IF Len(data) = size
    THEN IF Decode(data) # None
         THEN /\ hpc' = [hpc EXCEPT ![h] = "wlock"]
              /\ frame_size' = [frame_size EXCEPT ![h] = size]
              /\ frame_data' = [frame_data EXCEPT ![h] = data]
              /\ UNCHANGED incomplete
         ELSE /\ hpc' = [hpc EXCEPT ![h] = "clock"]
              /\ frame_size' = [frame_size EXCEPT ![h] = 0]
              /\ frame_data' = [frame_data EXCEPT ![h] = <<>>]
              /\ UNCHANGED incomplete
    ELSE /\ hpc' = [hpc EXCEPT ![h] = "loop"]
         /\ frame_size' = [frame_size EXCEPT ![h] = 0]
         /\ frame_data' = [frame_data EXCEPT ![h] = <<>>]
         /\ incomplete' = [incomplete EXCEPT ![h] = TRUE]

\* if len(frame_data) == frame_size: once the inner while loop is over with
\* `data` received of `size` declared, the handler goes for the lock when
\* the payload is complete and decodes to a frame (frame is not None), and
\* back to the outer loop otherwise (a decode failure, or "Incomplete frame
\* received").
AfterPayload(h, size, data) ==
    IF Len(data) = size
    THEN IF Decode(data) # None
         THEN /\ hpc' = [hpc EXCEPT ![h] = "wlock"]
              /\ frame_size' = [frame_size EXCEPT ![h] = size]
              /\ frame_data' = [frame_data EXCEPT ![h] = data]
              /\ UNCHANGED incomplete
         ELSE /\ hpc' = [hpc EXCEPT ![h] = "loop"]
              /\ frame_size' = [frame_size EXCEPT ![h] = 0]
              /\ frame_data' = [frame_data EXCEPT ![h] = <<>>]
              /\ UNCHANGED incomplete
    ELSE /\ hpc' = [hpc EXCEPT ![h] = "loop"]
         /\ frame_size' = [frame_size EXCEPT ![h] = 0]
         /\ frame_data' = [frame_data EXCEPT ![h] = <<>>]
         /\ incomplete' = [incomplete EXCEPT ![h] = TRUE]

\* size_data = client_socket.recv(4) returned k bytes (1 <= k <= 4): what
\* has arrived of the stream, at most 4.
\* frame_size = struct.unpack('!I', size_data)[0] raises struct.error
\* unless k = 4.  A declared size of 0 skips the inner loop.
RecvHeaderData(h, k) ==
    /\ hpc[h] = "hdr"
    /\ k \in 1..Min(HeaderLen, Len(Wire(h)))
    /\ IF k = HeaderLen
       THEN /\ pos' = [pos EXCEPT ![h] = pos[h] + k]
            /\ UNCHANGED << hexit, script, eof >>
            /\ LET size == Unpack(SubSeq(Wire(h), 1, k)) IN
               IF size = 0
               THEN AfterPayload(h, size, <<>>)
               ELSE /\ hpc' = [hpc EXCEPT ![h] = "payload"]
                    /\ frame_size' = [frame_size EXCEPT ![h] = size]
                    /\ frame_data' = [frame_data EXCEPT ![h] = <<>>]
                    /\ UNCHANGED incomplete
       ELSE Leave(h, "struct.error") /\ UNCHANGED incomplete
    /\ UNCHANGED << listenerVars, storeVars, frame_lock, wrote, written,
                    viewerVars >>
    /\ UNCHANGED clientVars

\* recv(4) returned b'': the peer has closed (now, or before).
\* if not size_data: break
RecvHeaderEof(h) ==
    /\ hpc[h] = "hdr"
    /\ Leave(h, "eof")
    /\ UNCHANGED << listenerVars, storeVars, frame_lock, incomplete,
                    wrote, written, viewerVars >>
    /\ UNCHANGED clientVars

\* A faulty RecvError: the handler's except clause shuts the server down.
RecvErrorStopsServer(h) ==
    /\ hpc[h] \in {"hdr", "payload"}
    /\ ~eof[h]
    /\ Leave(h, "socket.error")
    /\ running' = FALSE
    /\ UNCHANGED << server_socket, tpc, spc, storeVars, frame_lock,
                    incomplete, wrote, written, viewerVars >>
    /\ UNCHANGED clientVars

\* recv raised socket.error (a reset, a timeout): except Exception, finally.
RecvError(h) ==
    /\ hpc[h] \in {"hdr", "payload"}
    /\ ~eof[h]
    /\ Leave(h, "socket.error")
    /\ UNCHANGED << listenerVars, storeVars, frame_lock, incomplete,
                    wrote, written, viewerVars >>
    /\ UNCHANGED clientVars

\* chunk = client_socket.recv(min(frame_size - len(frame_data), 4096))
\* returned k bytes; frame_data += chunk; the inner loop ends once
\* len(frame_data) reaches frame_size.
RecvPayloadData(h, k) ==
    /\ hpc[h] = "payload"
    /\ k \in 1..Min(Min(frame_size[h] - Len(frame_data[h]), RecvChunk),
                    Len(Wire(h)))
    /\ pos' = [pos EXCEPT ![h] = pos[h] + k]
    /\ LET data == frame_data[h] \o SubSeq(Wire(h), 1, k) IN
       IF Len(data) < frame_size[h]
       THEN /\ frame_data' = [frame_data EXCEPT ![h] = data]
            /\ UNCHANGED << hpc, frame_size, incomplete >>
       ELSE AfterPayload(h, frame_size[h], data)
    /\ UNCHANGED << listenerVars, storeVars, frame_lock, script, eof,
                    hexit, wrote, written, viewerVars >>
    /\ UNCHANGED clientVars

\* A faulty RecvPayloadEof: the bytes received before the peer closed are
\* taken for the frame (the length check after the inner loop lost).
RecvPayloadEofAccepts(h) ==
    /\ hpc[h] = "payload"
    /\ eof' = [eof EXCEPT ![h] = TRUE]
    /\ script' = [script EXCEPT ![h] = <<>>]
    /\ pos' = [pos EXCEPT ![h] = 0]
    /\ AfterPayload(h, Len(frame_data[h]), frame_data[h])
    /\ UNCHANGED << listenerVars, storeVars, frame_lock, hexit, wrote, written,
                    viewerVars >>
    /\ UNCHANGED clientVars

\* recv returned b'' inside the inner loop, the peer having closed before
\* the declared bytes were sent: if not chunk: break.  What the peer had
\* not sent never arrives.
RecvPayloadEof(h) ==
    /\ hpc[h] = "payload"
    /\ eof' = [eof EXCEPT ![h] = TRUE]
    /\ script' = [script EXCEPT ![h] = <<>>]
    /\ pos' = [pos EXCEPT ![h] = 0]
    /\ AfterPayload(h, frame_size[h], frame_data[h])
    /\ UNCHANGED << listenerVars, storeVars, frame_lock, hexit, wrote, written,
                    viewerVars >>
    /\ UNCHANGED clientVars

\* with self.frame_lock:  (the write's)
WriteLock(h) ==
    /\ hpc[h] = "wlock"
    /\ frame_lock = Free
    /\ frame_lock' = H(h)
    /\ hpc' = [hpc EXCEPT ![h] = "write"]
    /\ UNCHANGED << listenerVars, storeVars, script, pos, eof,
                    frame_size, frame_data, hexit, incomplete, wrote, written,
                    viewerVars >>
    /\ UNCHANGED clientVars

\* A faulty WriteFrame: the received bytes stored as they are, undecoded.
WriteFrameRaw(h) ==
    /\ hpc[h] = "write"
    /\ current_frame' = frame_data[h]
    /\ lastPayload' = frame_data[h]
    /\ lastWriter' = h
    /\ frame_lock' = Free
    /\ wrote' = [wrote EXCEPT ![h] = TRUE]
    /\ written' = [written EXCEPT ![h] = Append(@, frame_data[h])]
    /\ hpc' = [hpc EXCEPT ![h] = "loop"]
    /\ frame_size' = [frame_size EXCEPT ![h] = 0]
    /\ frame_data' = [frame_data EXCEPT ![h] = <<>>]
    /\ UNCHANGED << listenerVars, script, pos, eof, hexit, incomplete,
                    viewerVars >>
    /\ UNCHANGED clientVars

\* A faulty WriteFrame: a frame already held is kept (the first writer wins).
WriteFrameFirstWins(h) ==
    /\ hpc[h] = "write"
    /\ IF current_frame = None
       THEN /\ current_frame' = Decode(frame_data[h])
            /\ lastPayload' = frame_data[h]
            /\ lastWriter' = h
            /\ written' = [written EXCEPT ![h] = Append(@, Decode(frame_data[h]))]
       ELSE UNCHANGED << storeVars, written >>
    /\ frame_lock' = Free
    /\ wrote' = [wrote EXCEPT ![h] = TRUE]
    /\ hpc' = [hpc EXCEPT ![h] = "loop"]
    /\ frame_size' = [frame_size EXCEPT ![h] = 0]
    /\ frame_data' = [frame_data EXCEPT ![h] = <<>>]
    /\ UNCHANGED << listenerVars, script, pos, eof, hexit, incomplete,
                    viewerVars >>
    /\ UNCHANGED clientVars

\* self.current_frame = frame, and the lock released.
WriteFrame(h) ==
    /\ hpc[h] = "write"
    /\ current_frame' = Decode(frame_data[h])
    /\ lastPayload' = frame_data[h]
    /\ lastWriter' = h
    /\ frame_lock' = Free
    /\ wrote' = [wrote EXCEPT ![h] = TRUE]
    /\ written' = [written EXCEPT ![h] = Append(@, Decode(frame_data[h]))]
    /\ hpc' = [hpc EXCEPT ![h] = "loop"]
    /\ frame_size' = [frame_size EXCEPT ![h] = 0]
    /\ frame_data' = [frame_data EXCEPT ![h] = <<>>]
    /\ UNCHANGED << listenerVars, script, pos, eof, hexit, incomplete,
                    viewerVars >>
    /\ UNCHANGED clientVars

\* finally: client_socket.close(); with self.frame_lock:
ClearLock(h) ==
    /\ hpc[h] = "clock"
    /\ frame_lock = Free
    /\ frame_lock' = H(h)
    /\ hpc' = [hpc EXCEPT ![h] = "clear"]
    /\ UNCHANGED << listenerVars, storeVars, script, pos, eof,
                    frame_size, frame_data, hexit, incomplete, wrote, written,
                    viewerVars >>
    /\ UNCHANGED clientVars

\* A faulty ClearFrame: the assignment of None lost.
ClearFrameKeeps(h) ==
    /\ hpc[h] = "clear"
    /\ UNCHANGED storeVars
    /\ frame_lock' = Free
    /\ hpc' = [hpc EXCEPT ![h] = "done"]
    /\ UNCHANGED << listenerVars, script, pos, eof, frame_size, frame_data,
                    hexit, incomplete, wrote, viewerVars >>
    /\ written' = [written EXCEPT ![h] = <<>>]
    /\ UNCHANGED clientVars

\* A faulty ClearFrame: None is assigned only when the connection wrote
\* the frame that is held.
ClearFrameIfLastWriter(h) ==
    /\ hpc[h] = "clear"
    /\ IF lastWriter = h
       THEN /\ current_frame' = None
            /\ lastPayload' = NoPayload
            /\ lastWriter' = NoWriter
       ELSE UNCHANGED storeVars
    /\ frame_lock' = Free
    /\ hpc' = [hpc EXCEPT ![h] = "done"]
    /\ UNCHANGED << listenerVars, script, pos, eof, frame_size, frame_data,
                    hexit, incomplete, wrote, viewerVars >>
    /\ written' = [written EXCEPT ![h] = <<>>]
    /\ UNCHANGED clientVars

\* self.current_frame = None, and the lock released.
ClearFrame(h) ==
    /\ hpc[h] = "clear"
    /\ current_frame' = None
    /\ lastPayload' = NoPayload
    /\ lastWriter' = NoWriter
    /\ frame_lock' = Free
    /\ hpc' = [hpc EXCEPT ![h] = "done"]
    /\ UNCHANGED << listenerVars, script, pos, eof, frame_size, frame_data,
                    hexit, incomplete, wrote, viewerVars >>
    /\ written' = [written EXCEPT ![h] = <<>>]
    /\ UNCHANGED clientVars

\* ------------------------------------------------------------ /video_feed
NextViewer(v) ==
    vpc[v] = "idle" /\ \A w \in Viewers : w < v => vpc[w] # "idle"

\* A GET /video_feed: Response(generate(), ...)
ViewerConnect(v) ==
    /\ NextViewer(v)
    /\ vpc' = [vpc EXCEPT ![v] = "poll"]
    /\ UNCHANGED << listenerVars, storeVars, frame_lock, handlerVars,
                    chunk >>
    /\ UNCHANGED clientVars

\* with self.frame_lock: ... yield (...): the generator takes the lock,
\* builds the chunk from current_frame and is suspended at the yield,
\* inside the with block, while the server writes the chunk to the viewer.
ViewerYield(v) ==
    /\ vpc[v] = "poll"
    /\ frame_lock = Free
    /\ frame_lock' = V(v)
    /\ chunk' = [chunk EXCEPT ![v] = ChunkFor(current_frame)]
    /\ vpc' = [vpc EXCEPT ![v] = "yield"]
    /\ UNCHANGED << listenerVars, storeVars, handlerVars >>
    /\ UNCHANGED clientVars

\* The write to the viewer's socket returned and the server resumes the
\* generator: the with block ends, time.sleep(0.033), the next iteration.
ViewerResume(v) ==
    /\ vpc[v] = "yield"
    /\ frame_lock' = Free
    /\ vpc' = [vpc EXCEPT ![v] = "poll"]
    /\ chunk' = [chunk EXCEPT ![v] = NoChunk]
    /\ UNCHANGED << listenerVars, storeVars, handlerVars >>
    /\ UNCHANGED clientVars

\* A faulty ViewerDisconnect: the lock taken with acquire() and released
\* after the yield, with no with block or finally: closing the generator
\* at the yield releases nothing.
ViewerDisconnectKeepsLock(v) ==
    /\ vpc[v] = "yield"
    /\ vpc' = [vpc EXCEPT ![v] = "gone"]
    /\ chunk' = [chunk EXCEPT ![v] = NoChunk]
    /\ UNCHANGED << frame_lock, listenerVars, storeVars, handlerVars >>
    /\ UNCHANGED clientVars

\* The write failed (the viewer is gone) and the server closes the
\* generator: GeneratorExit at the yield leaves the with block.
ViewerDisconnect(v) ==
    /\ vpc[v] = "yield"
    /\ frame_lock' = Free
    /\ vpc' = [vpc EXCEPT ![v] = "gone"]
    /\ chunk' = [chunk EXCEPT ![v] = NoChunk]
    /\ UNCHANGED << listenerVars, storeVars, handlerVars >>
    /\ UNCHANGED clientVars

\* ---------------------------------------------------------------- /status
\* A faulty StatusOf: connected reports that the server is running.
StatusOfRunning(frame) == << running, port, web_port >>

\* {'connected': self.current_frame is not None, 'tcp_port': self.port,
\*  'web_port': self.web_port}
StatusOf(frame) == << frame # None, port, web_port >>

\* What /status answers when it is asked now.
StatusResponse == StatusOf(current_frame)

\* A GET /status: one read of current_frame, frame_lock not taken, nothing
\* assigned; the answer is StatusResponse.
Status == UNCHANGED vars

\* ------------------------------------------------------------ VideoClient
\* The frames cap.read() may return (with the overlays drawn on them).
ClientImages == { <<1>>, <<2, 1>> }

\* if not self.connect(): return.  connect() creates the socket and
\* connects it; socket.socket() or connect() may raise, and connect()
\* then returns False with self.socket None or created, never closed.
Connect ==
    /\ cpc = "connect"
    /\ \/ socket' = "open" /\ cpc' = "camera"
       \/ socket' \in {"None", "created"} /\ cpc' = "returned"
    /\ UNCHANGED << cap, client_running, frame_count, send_data, sent,
                    send_failed, stopped, serverVars >>

\* if not self.start_camera(): return.  VideoCapture() may raise (self.cap
\* stays None) or give a capture that is not opened; otherwise
\* self.running = True; frame_count = 0 and the loop is entered.
StartCamera ==
    /\ cpc = "camera"
    /\ \/ cap' = "opened" /\ client_running' = TRUE /\ cpc' = "loop"
       \/ cap' \in {"None", "failed"} /\ cpc' = "returned"
             /\ UNCHANGED client_running
    /\ UNCHANGED << socket, frame_count, send_data, sent, send_failed,
                    stopped, serverVars >>

\* while self.running:  (leaving the loop runs finally: self.stop())
ClientLoop ==
    /\ cpc = "loop"
    /\ cpc' = IF client_running THEN "capture" ELSE "stop"
    /\ UNCHANGED << socket, cap, client_running, frame_count, send_data,
                    sent, send_failed, stopped, serverVars >>

\* ret, frame = self.cap.read() gave a frame; the overlays are drawn and
\* send_frame(frame) encodes it: frame_data = imencode(frame).tobytes().
Capture(image) ==
    /\ cpc = "capture"
    /\ frame_count < MaxFrames
    /\ send_data' = Encode(image)
    /\ cpc' = "size"
    /\ UNCHANGED << socket, cap, client_running, frame_count, sent,
                    send_failed, stopped, serverVars >>

\* if not ret: break
CaptureFails ==
    /\ cpc = "capture"
    /\ cpc' = "stop"
    /\ UNCHANGED << socket, cap, client_running, frame_count, send_data,
                    sent, send_failed, stopped, serverVars >>

\* self.socket.sendall(struct.pack('!I', frame_size)) put k of the 4 bytes
\* on the connection; short of 4 it raised, send_frame returns False and
\* stream_video breaks.
SendSize(k) ==
    /\ cpc = "size"
    /\ k \in 0..HeaderLen
    /\ sent' = sent \o SubSeq(Pack(Len(send_data)), 1, k)
    /\ IF k = HeaderLen
       THEN cpc' = "data" /\ UNCHANGED << send_failed, send_data >>
       ELSE cpc' = "stop" /\ send_failed' = TRUE /\ send_data' = <<>>
    /\ UNCHANGED << socket, cap, client_running, frame_count, stopped,
                    serverVars >>

\* A faulty SendData: the break after a failed send_frame lost, the loop
\* goes on to the next frame.
SendDataNoBreak(k) ==
    /\ cpc = "data"
    /\ k \in 0..Len(send_data)
    /\ sent' = sent \o SubSeq(send_data, 1, k)
    /\ send_data' = <<>>
    /\ IF k = Len(send_data)
       THEN /\ cpc' = "preview"
            /\ frame_count' = frame_count + 1
            /\ UNCHANGED send_failed
       ELSE /\ cpc' = "loop"
            /\ send_failed' = TRUE
            /\ UNCHANGED frame_count
    /\ UNCHANGED << socket, cap, client_running, stopped, serverVars >>

\* self.socket.sendall(frame_data) put k bytes of the payload on the
\* connection; short of all it raised, send_frame returns False and
\* stream_video breaks; otherwise frame_count += 1.
SendData(k) ==
    /\ cpc = "data"
    /\ k \in 0..Len(send_data)
    /\ sent' = sent \o SubSeq(send_data, 1, k)
    /\ send_data' = <<>>
    /\ IF k = Len(send_data)
       THEN /\ cpc' = "preview"
            /\ frame_count' = frame_count + 1
            /\ UNCHANGED send_failed
       ELSE /\ cpc' = "stop"
            /\ send_failed' = TRUE
            /\ UNCHANGED frame_count
    /\ UNCHANGED << socket, cap, client_running, stopped, serverVars >>

\* cv2.imshow; if cv2.waitKey(1) & 0xFF == ord('q'): break; time.sleep.
Preview ==
    /\ cpc = "preview"
    /\ cpc' \in {"loop", "stop"}
    /\ UNCHANGED << socket, cap, client_running, frame_count, send_data,
                    sent, send_failed, stopped, serverVars >>

\* KeyboardInterrupt, or an exception of the loop body outside send_frame:
\* except, then finally.  (KeyboardInterrupt is not an Exception: raised
\* inside send_frame it is not caught there.)
Interrupt ==
    /\ cpc \in {"capture", "size", "data", "preview"}
    /\ cpc' = "stop"
    /\ send_data' = <<>>
    /\ UNCHANGED << socket, cap, client_running, frame_count, sent,
                    send_failed, stopped, serverVars >>

\* finally: self.stop(): self.running = False; if self.cap: release();
\* if self.socket: close(); and stream_video returns.
ClientStop ==
    /\ cpc = "stop"
    /\ client_running' = FALSE
    /\ cap' = IF cap = "None" THEN "None" ELSE "released"
    /\ socket' = IF socket = "None" THEN "None" ELSE "closed"
    /\ stopped' = TRUE
    /\ cpc' = "returned"
    /\ UNCHANGED << frame_count, send_data, sent, send_failed, serverVars >>

\* ------------------------------------------------------------------ next
Next ==
    \/ TcpCreate
    \/ TcpBind
    \/ TcpSetRunning
    \/ TcpLoop
    \/ \E h \in Conns, s \in Scripts : TcpAccept(h, s)
    \/ TcpAcceptError
    \/ StopSetRunning
    \/ StopClose
    \/ \E h \in Conns : HandlerLoop(h)
    \/ \E h \in Conns, k \in 1..HeaderLen : RecvHeaderData(h, k)
    \/ \E h \in Conns : RecvHeaderEof(h)
    \/ \E h \in Conns : RecvError(h)
    \/ \E h \in Conns : \E k \in 1..Len(Wire(h)) : RecvPayloadData(h, k)
    \/ \E h \in Conns : RecvPayloadEof(h)
    \/ \E h \in Conns : WriteLock(h)
    \/ \E h \in Conns : WriteFrame(h)
    \/ \E h \in Conns : ClearLock(h)
    \/ \E h \in Conns : ClearFrame(h)
    \/ \E v \in Viewers : ViewerConnect(v)
    \/ \E v \in Viewers : ViewerYield(v)
    \/ \E v \in Viewers : ViewerResume(v)
    \/ \E v \in Viewers : ViewerDisconnect(v)
    \/ Status

Spec == Init /\ [][Next]_vars

\* A VideoClient, taken alone: what it does to its end of a connection.
NextClient ==
    \/ Connect
    \/ StartCamera
    \/ ClientLoop
    \/ \E image \in ClientImages : Capture(image)
    \/ CaptureFails
    \/ \E k \in 0..HeaderLen : SendSize(k)
    \/ \E k \in 0..Len(send_data) : SendData(k)
    \/ Preview
    \/ Interrupt
    \/ ClientStop

SpecClient == Init /\ [][NextClient]_vars

\* The same server with one more /video_feed request.
InitViewers == InitOn(1..MaxConns, 1..(MaxViewers + 1))
SpecViewers == InitViewers /\ [][Next]_vars

\* Fair scheduling of the server's threads: a thread that can take a step
\* of its own does so, and a thread waiting for frame_lock gets it if it is
\* free again and again.  What the peers do is not the server's: no recv
\* outcome, no /video_feed request, no completion of a write to a viewer
\* (ViewerResume, ViewerDisconnect) and no stop() is assumed to happen.
Fairness ==
    /\ WF_vars(TcpCreate) /\ WF_vars(TcpBind) /\ WF_vars(TcpSetRunning)
    /\ WF_vars(TcpLoop) /\ WF_vars(TcpAcceptError)
    /\ \A h \in 1..MaxConns :
          /\ WF_vars(HandlerLoop(h))
          /\ SF_vars(WriteLock(h)) /\ WF_vars(WriteFrame(h))
          /\ SF_vars(ClearLock(h)) /\ WF_vars(ClearFrame(h))
    /\ \A v \in 1..(MaxViewers + 1) : SF_vars(ViewerYield(v))

\* The server with one more /video_feed request, fairly scheduled.
SpecLive == InitViewers /\ [][Next]_vars /\ Fairness

\* The same server with two producers connecting (two ingest connections).
Producers == {1, 2}
InitProducers == InitOn(Producers, 1..MaxViewers)
SpecProducers == InitProducers /\ [][Next]_vars

\* ================================================================ claims
\* Steps of handle_client, seen from outside.
WriteStep(h) == hpc[h] = "write" /\ hpc'[h] = "loop"
ClearStep(h) == hpc[h] = "clear" /\ hpc'[h] = "done"

\* What Read() yields of the store: the frame generate() reads under the
\* lock.  The store holds nothing else.
Read == current_frame

\* ------------------------------------------------------------------- C1
\* C1: a viewer never throttles ingest: whenever a /video_feed generator is
\* suspended at its yield and a handler holds a decoded frame and is at
\* `with self.frame_lock`, the handler can take the lock.
C1_ViewerNeverThrottlesIngest ==
    \A h \in Conns, v \in Viewers :
        (hpc[h] = "wlock" /\ vpc[v] = "yield") => ENABLED WriteLock(h)

\* ------------------------------------------------------------------- C2
\* C2: viewers are independent: whenever one generator is suspended at its
\* yield (its write stalled) or is gone, another generator that is polling
\* can read the store and yield its chunk.
C2_ViewersIndependent ==
    \A v \in Viewers, w \in Viewers :
        (v # w /\ vpc[v] \in {"yield", "gone"} /\ vpc[w] = "poll"
             /\ \A h \in Conns : frame_lock # H(h))
            => ENABLED ViewerYield(w)

\* ------------------------------------------------------------------- C3
\* C3: disconnect clears state: every way out of the handler's loop leads
\* to the cleanup, and when the cleanup of a connection that wrote a frame
\* completes the store is empty: a Read() then yields None, a /video_feed
\* chunk built then is the placeholder and /status reports connected: false.
C3_DisconnectClears ==
    /\ [](\A h \in Conns :
            hexit[h] # "none" <=> hpc[h] \in {"clock", "clear", "done"})
    /\ [][\A h \in Conns :
            (ClearStep(h) /\ wrote[h]) =>
                /\ Read' = None
                /\ ChunkFor(Read') = Placeholder
                /\ StatusOf(current_frame')[1] = FALSE]_vars

\* A connection that wrote a frame, ended by its peer's close, has completed
\* its cleanup, and /status answers connected: false.
C3_Witness ==
    \E h \in Conns :
        /\ hpc[h] = "done" /\ wrote[h] /\ hexit[h] = "eof"
        /\ current_frame = None
        /\ StatusResponse[1] = FALSE

\* ------------------------------------------------------------------- C4
\* C4: truncation safety: once the peer has closed short of the declared
\* payload length the handler reports the incomplete frame and is back at
\* its outer loop, from where it only ends (it never goes for the lock
\* again); the step that meets the truncation changes neither the store nor
\* the listener nor another connection's handler.
C4_TruncationSafety ==
    /\ [](\A h \in Conns :
            eof[h] => (incomplete[h] /\ hpc[h] \in {"loop", "hdr"}))
    /\ [][\A h \in Conns :
            (hpc[h] = "payload" /\ eof'[h]) =>
                /\ UNCHANGED << storeVars, listenerVars >>
                /\ \A g \in Conns \ {h} : hpc'[g] = hpc[g]]_vars

\* A first frame was written, the second message was cut short, and the
\* store still holds the first frame while the listener is accepting.
C4_Witness ==
    \E h \in Conns :
        /\ eof[h] /\ incomplete[h] /\ wrote[h]
        /\ current_frame = Decode(PayA)
        /\ tpc = "accept" /\ server_socket = "open"

\* ------------------------------------------------------------------- C5
\* The frames (and chunk bodies) a completely received, decodable payload
\* gives.
WholeFrames ==
    { Decode(p) : p \in { q \in FramedPayloads : Decode(q) # None } }

\* C5: the store holds nothing or the frame decoded from a payload received
\* whole; a handler goes for the lock only with all declared bytes, and no
\* viewer is sent anything but the placeholder or such a frame re-encoded.
C5_NoPartialFrame ==
    /\ current_frame \in {None} \cup WholeFrames
    /\ \A h \in Conns :
          hpc[h] \in {"wlock", "write"} =>
              /\ Len(frame_data[h]) = frame_size[h]
              /\ Decode(frame_data[h]) \in WholeFrames
    /\ \A v \in Viewers :
          chunk[v] \in {NoChunk, Placeholder}
                          \cup { Encode(f) : f \in WholeFrames }

\* The store holds the frame of the three-byte payload and a viewer is
\* being sent it.
C5_Witness ==
    /\ current_frame = Decode(PayB)
    /\ \E v \in Viewers : vpc[v] = "yield" /\ chunk[v] = Encode(Decode(PayB))

\* ------------------------------------------------------------------- C6
\* The payload of the message the handler has just received whole is, on
\* the wire, what the peer framed: its length field and then its bytes.
ReceivedAsFramed(h) ==
    LET n == Len(frame_data[h]) IN
    /\ pos[h] >= n + HeaderLen
    /\ SubSeq(script[h], pos[h] - n - HeaderLen + 1, pos[h])
           = Msg(frame_data[h])

C7_EveryMutationAdvances ==
    [][\A h \in Conns : (WriteStep(h) \/ ClearStep(h)) => Read' # Read]_vars

\* ------------------------------------------------------------------- C8
\* C8: no-signal placeholder: while no ingest connection has been made the
\* store is empty, every chunk a viewer is sent is the placeholder and every
\* /status response reports connected: false.
C8_NoSignalPlaceholder ==
    (\A h \in Conns : hpc[h] = "unborn") =>
        /\ current_frame = None
        /\ \A v \in Viewers : vpc[v] = "yield" => chunk[v] = Placeholder
        /\ StatusResponse = << FALSE, port, web_port >>

\* No connection yet, a viewer is being sent the placeholder and /status
\* answers connected: false.
C8_Witness ==
    /\ \A h \in Conns : hpc[h] = "unborn"
    /\ \E v \in Viewers : vpc[v] = "yield" /\ chunk[v] = Placeholder
    /\ StatusResponse[1] = FALSE

\* ------------------------------------------------------------------- C9
\* C9: header read contract: a length field that arrives in pieces is
\* accumulated, and a close short of 4 header bytes is a clean end of
\* stream: the handler never ends in struct.error.
C9_HeaderContract ==
    \A h \in Conns : hexit[h] # "struct.error"

\* ------------------------------------------------------------------ C10
\* A limit well above "a few megabytes": 16 MiB.
FrameLimit == 16 * 1024 * 1024

\* C10: a maximum frame length is enforced: the handler never sets out to
\* read a payload longer than the limit.
C10_MaxFrameLength ==
    \A h \in Conns : hpc[h] = "payload" => frame_size[h] <= FrameLimit

\* ------------------------------------------------------------------ C11
\* The handler's recv returns, in this step, the last bytes of the declared
\* payload, and the payload does not decode.
CompletesUndecodable(h) ==
    /\ hpc[h] = "payload"
    /\ pos'[h] > pos[h]
    /\ pos'[h] - pos[h] = frame_size[h] - Len(frame_data[h])
    /\ Decode(frame_data[h] \o SubSeq(script[h], pos[h] + 1, pos'[h])) = None

\* C11: decode errors are non-fatal and have no effect on the store: the
\* step in which a handler has received a whole payload that does not
\* decode leaves current_frame as it was, leaves the connection open (the
\* handler has not left its loop, the rest of the stream is still to be
\* read, nothing is reported incomplete) and takes the handler back to the
\* head of its loop, from where it reads the next message.
C11_DecodeErrorNonFatal ==
    /\ [](\A h \in Conns : hpc[h] = "loop" /\ running => ENABLED HandlerLoop(h))
    /\ [][\A h \in Conns :
            CompletesUndecodable(h) =>
                /\ UNCHANGED storeVars
                /\ hpc'[h] = "loop"
                /\ hexit'[h] = "none"
                /\ script'[h] = script[h]
                /\ eof'[h] = FALSE
                /\ incomplete'[h] = incomplete[h]]_vars

\* A handler that received an undecodable payload first is receiving the
\* payload of its next message, while the store holds the frame another
\* connection wrote.
C11_Witness ==
    \E h \in Conns, g \in Conns :
        /\ g # h
        /\ script[h] = Stream(<< PayBad, PayA >>)
        /\ pos[h] >= Len(Msg(PayBad)) + HeaderLen
        /\ hpc[h] = "payload" /\ hexit[h] = "none"
        /\ lastWriter = g /\ current_frame # None

\* ------------------------------------------------------------------ C12
\* C12: /status is a single-shot, read-only query: asked in any state, its
\* connected field is true exactly when the store holds a frame in that
\* state (that is, when a handler's write is the store's latest change),
\* its tcp_port and web_port are the configured ports, and the step that
\* answers it changes neither the store nor the lock nor any connection.
C12_StatusReadOnly ==
    /\ [](/\ StatusResponse[1] = (current_frame # None)
          /\ StatusResponse[1] = (lastWriter # NoWriter)
          /\ StatusResponse[2] = port
          /\ StatusResponse[3] = web_port)
    /\ [][Status => UNCHANGED << storeVars, frame_lock, handlerVars,
                                 listenerVars >>]_vars

\* The store holds a frame, its writer is still connected, and /status
\* answers connected: true with the two ports.
C12_Witness ==
    /\ current_frame # None
    /\ \E h \in Conns : lastWriter = h /\ hexit[h] = "none"
    /\ StatusResponse = << TRUE, port, web_port >>

\* ------------------------------------------------------------------ C13
\* The connection is open: its handler has been started and has not left
\* its loop.
Open(h) == hpc[h] # "unborn" /\ hexit[h] = "none"

\* C13: last writer wins: the store changes only in a Write or a Clear, and
\* every Write, whatever the store holds and whoever wrote it, leaves the
\* store holding the frame of the handler that has the lock; a handler's
\* Write moves no other handler, and a handler leaves its loop only from
\* its own loop test or its own recv, never while it waits for the lock or
\* holds it.
C13_LastWriterWins ==
    /\ [][\A h \in Conns :
            WriteStep(h) =>
                /\ current_frame' = Decode(frame_data[h])
                /\ lastWriter' = h
                /\ \A g \in Conns \ {h} :
                      hpc'[g] = hpc[g] /\ hexit'[g] = hexit[g]]_vars
    /\ [][current_frame' # current_frame =>
            \E h \in Conns : WriteStep(h) \/ ClearStep(h)]_vars
    /\ [][\A h \in Conns :
            hexit'[h] # hexit[h] => hpc[h] \in {"loop", "hdr", "payload"}]_vars

\* Two connections are open and each has written; the one whose only valid
\* frame is that of PayA wrote first, and the store holds the other's frame
\* of PayB.
C13_Witness ==
    \E h \in Conns, g \in Conns :
        /\ h # g /\ Open(h) /\ Open(g)
        /\ wrote[h] /\ wrote[g]
        /\ script[h] = Stream(<< PayBad, PayA >>)
        /\ lastWriter = g
        /\ current_frame = Decode(PayB)

\* ------------------------------------------------------------------ C14
\* start_tcp_server has returned and stop() was never called: bind() or
\* listen() raised (nothing else ends the listener while stop() is idle).
BindFailed == tpc = "done" /\ spc = "idle"

\* C14: a bind or listen failure at startup is fatal to the whole process:
\* once the listener has failed the web server is not running, so it takes
\* no /video_feed request and no generator of it yields a chunk.
C14_BindFailureFatal ==
    BindFailed =>
        \A v \in Viewers :
            ~ENABLED ViewerConnect(v) /\ ~ENABLED ViewerYield(v)

\* ------------------------------------------------------------------ C15
\* C15: shutdown stops ingest accepting: once stop() has returned, however
\* it interleaved with start_tcp_server, the listener accepts no connection
\* (no handler is started).
C15_ShutdownStopsAccepting ==
    [][spc = "done" =>
          \A h \in Conns : hpc[h] = "unborn" => hpc'[h] = "unborn"]_vars

\* ------------------------------------------------------------------ C16
\* C16: lock discipline: every access to current_frame is made holding
\* frame_lock: a handler about to assign it (the write, the clear) holds
\* the lock, a generator that has read it holds the lock, and /status does
\* not read it while another thread holds the lock.
C16_LockDiscipline ==
    /\ \A h \in Conns : hpc[h] \in {"write", "clear"} => frame_lock = H(h)
    /\ \A v \in Viewers : vpc[v] = "yield" => frame_lock = V(v)
    /\ frame_lock # Free => ~ENABLED Status

\* ------------------------------------------------------------------ C17
\* C17: a terminating handler clears the store only if its connection was
\* the most recent writer: the Clear of the connection whose frame is held
\* empties the store, and the Clear of any other connection (one that wrote
\* earlier, or never) leaves the held frame in place.
C17_ClearOnlyIfLastWriter ==
    [][\A h \in Conns :
          ClearStep(h) =>
              IF lastWriter = h
              THEN current_frame' = None
              ELSE current_frame' = current_frame]_vars

\* ------------------------------------------------------------------ C18
\* C18: any connection's close clears the store: the Clear of a terminating
\* handler empties the store whoever wrote the held frame, also when that
\* writer is another connection that is still open; an empty store then
\* holds a frame again only by a handler's Write.
C18_AnyCloseClears ==
    /\ [][\A h \in Conns :
            ClearStep(h) =>
                /\ current_frame' = None
                /\ StatusOf(current_frame')[1] = FALSE
                /\ \A g \in Conns \ {h} : Open(g) => Open(g)']_vars
    /\ [][(current_frame = None /\ current_frame' # None) =>
            \E g \in Conns : WriteStep(g) /\ lastWriter' = g]_vars

\* A, which never wrote, has terminated; B wrote and is still open; the
\* store is empty (the frame it held when A cleared it was B's).
C18_Witness ==
    \E a \in Conns, b \in Conns :
        /\ a # b
        /\ hpc[a] = "done" /\ ~wrote[a]
        /\ Open(b) /\ wrote[b]
        /\ current_frame = None

\* ------------------------------------------------------------------ C19
\* C19: shutdown cancels handlers and waits for them: when stop() has
\* returned, every handler that was started has exited (its socket closed,
\* its cleanup done); none is left in its loop or blocked in recv.
C19_ShutdownCancelsHandlers ==
    spc = "done" => \A h \in Conns : hpc[h] \in {"unborn", "done"}

\* ------------------------------------------------------------------ C20
\* The errors a handler ends with.
Errors == {"struct.error", "socket.error"}

\* A step of connection h's handler that meets an error (a socket error, a
\* short header, a truncated payload, a payload that does not decode), or
\* a step of its cleanup after one.
ErrorStep(h) ==
    \/ hexit[h] = "none" /\ hexit'[h] \in Errors
    \/ ~incomplete[h] /\ incomplete'[h]
    \/ CompletesUndecodable(h)
    \/ hexit[h] \in Errors /\ hpc'[h] # hpc[h]

\* C20: error containment: a step in which one connection's handler meets
\* an error, or cleans up after one, leaves the listener where it was (the
\* accept loop goes on) and leaves every other connection's handler, and
\* its stream, untouched; only the handler that met the error ends.
C20_ErrorContainment ==
    [][\A h \in Conns :
          ErrorStep(h) =>
              /\ UNCHANGED listenerVars
              /\ \A g \in Conns \ {h} :
                    /\ hpc'[g] = hpc[g] /\ hexit'[g] = hexit[g]
                    /\ script'[g] = script[g] /\ pos'[g] = pos[g]
                    /\ eof'[g] = eof[g]]_vars

\* One handler has ended with an error and finished its cleanup; the other
\* connection is open and has written the frame the store holds since, and
\* the listener is running, waiting in accept().
C20_Witness ==
    \E h \in Conns, g \in Conns :
        /\ h # g
        /\ hexit[h] \in Errors /\ hpc[h] = "done"
        /\ Open(g) /\ lastWriter = g /\ current_frame # None
        /\ running /\ tpc = "accept" /\ server_socket = "open"

\* ------------------------------------------------------------------ C21
\* The payloads of the complete messages a byte string starts with, in
\* order: a 4-byte big-endian length, then that many bytes, repeated.
RECURSIVE Parse(_)
Parse(bytes) ==
    IF Len(bytes) < HeaderLen
    THEN <<>>
    ELSE LET n == Unpack(SubSeq(bytes, 1, HeaderLen)) IN
         IF Len(bytes) - HeaderLen < n
         THEN <<>>
         ELSE << SubSeq(bytes, HeaderLen + 1, HeaderLen + n) >>
                  \o Parse(SubSeq(bytes, HeaderLen + n + 1, Len(bytes)))

\* The frames of the payloads that decode, in order.
RECURSIVE Frames(_)
Frames(payloads) ==
    IF payloads = <<>>
    THEN <<>>
    ELSE (IF Decode(Head(payloads)) # None
          THEN << Decode(Head(payloads)) >> ELSE <<>>)
             \o Frames(Tail(payloads))

\* The frames of the messages received whole on the connection so far, the
\* one the handler is about to assign left out.
Expected(h) ==
    LET msgs == Parse(SubSeq(script[h], 1, pos[h])) IN
    IF hpc[h] \in {"wlock", "write"}
    THEN Frames(SubSeq(msgs, 1, Len(msgs) - 1))
    ELSE Frames(msgs)

\* C21: per-connection ordering: while a connection's stream lasts, the
\* sequence of frames its handler has assigned to current_frame is the
\* sequence of the frames received whole on it, the undecodable ones
\* skipped, in receive order; the sequence grows only by the frame a Write
\* assigns, at its end.
C21_PerConnectionOrder ==
    /\ [](\A h \in Conns :
            (Open(h) /\ ~eof[h]) => written[h] = Expected(h))
    /\ [][\A h \in Conns :
            written'[h] # written[h] =>
                \/ WriteStep(h) /\ written'[h] = Append(written[h], current_frame')
                \/ ClearStep(h)]_vars

\* A handler has assigned the frames of PayA and of PayB, in that order,
\* and the store holds the later one.
C21_Witness ==
    \E h \in Conns :
        /\ Open(h)
        /\ written[h] = << Decode(PayA), Decode(PayB) >>
        /\ current_frame = Decode(PayB)

\* ------------------------------------------------------------------ C22
\* The bytes a sequence of framed payloads takes on the wire.
RECURSIVE WireLen(_)
WireLen(payloads) ==
    IF payloads = <<>>
    THEN 0
    ELSE HeaderLen + Len(Head(payloads)) + WireLen(Tail(payloads))

\* The payloads a VideoClient may frame.
ClientPayloads == { Encode(image) : image \in ClientImages }

\* a is b's beginning, short of all of b.
ProperPrefix(a, b) == Len(a) < Len(b) /\ a = SubSeq(b, 1, Len(a))

\* C22: producer write contract: the bytes a VideoClient has sent on its
\* connection are complete messages (4-byte big-endian length, then that
\* many bytes: an encoded frame), one per frame counted, followed at most
\* by the beginning of one more message, which is there only while that
\* message is being sent or once the loop has been left; after a
\* send_frame that failed, and once the loop has been left, no byte is
\* sent.
C22_ProducerWriteContract ==
    /\ [](LET msgs == Parse(sent)
              rest == SubSeq(sent, WireLen(msgs) + 1, Len(sent))
          IN  /\ \A i \in 1..Len(msgs) : msgs[i] \in ClientPayloads
              /\ Len(msgs) = frame_count
              /\ cpc = "data" => rest = Pack(Len(send_data))
              /\ rest # <<>> =>
                    /\ cpc \in {"data", "stop", "returned"}
                    /\ \E p \in ClientPayloads : ProperPrefix(rest, Msg(p)))
    /\ [][send_failed => UNCHANGED sent]_vars
    /\ [][(cpc = "stop" \/ cpc = "returned") => UNCHANGED sent]_vars

\* A client has sent one whole message, then a send_frame failed inside
\* the payload of the next, and stream_video has returned.
C22_Witness ==
    /\ send_failed /\ cpc = "returned"
    /\ Len(Parse(sent)) = 1
    /\ Len(sent) > WireLen(Parse(sent)) + HeaderLen

\* ------------------------------------------------------------------ C23
\* C23: whenever current_frame is not None, a handler assigned it and that
\* handle_client invocation has not completed its finally block: the store
\* never retains a frame written by a connection whose handler has
\* finished.
C23_NoFrameOfFinishedHandler ==
    current_frame # None =>
        /\ lastWriter \in Conns
        /\ hpc[lastWriter] \notin {"unborn", "done"}

\* One handler that wrote has finished; the store holds the frame of the
\* other, which has left its loop and has not yet cleared the store.
C23_Witness ==
    \E h \in Conns, g \in Conns :
        /\ h # g
        /\ hpc[g] = "done" /\ wrote[g]
        /\ current_frame # None /\ lastWriter = h
        /\ hpc[h] \in {"clock", "clear"}

\* ------------------------------------------------------------------ C24
\* C24: frame_lock is never leaked: it is free, or held by a generator
\* suspended at its yield, or held by a handler inside one of its two with
\* blocks; no generator that was closed and no handler that has exited, by
\* whatever path, holds it.
C24_LockNeverLeaked ==
    /\ \/ frame_lock = Free
       \/ \E v \in Viewers : frame_lock = V(v)
       \/ \E h \in Conns : frame_lock = H(h)
    /\ \A v \in Viewers : frame_lock = V(v) => vpc[v] = "yield"
    /\ \A h \in Conns : frame_lock = H(h) => hpc[h] \in {"write", "clear"}

\* A generator was closed at its yield and a handler that ended with an
\* exception has finished; the lock is free.
C24_Witness ==
    /\ \E v \in Viewers : vpc[v] = "gone"
    /\ \E h \in Conns : hpc[h] = "done" /\ hexit[h] \in Errors
    /\ frame_lock = Free

\* ------------------------------------------------------------------ C25
\* C25: frame delivery is live: under fair scheduling, whenever the store
\* holds a frame and a viewer's generator is polling, then, unless the
\* store is written or cleared, that generator eventually yields a chunk
\* built from the frame, whatever the other viewers do.
C25_FrameDeliveryLive ==
    \A v \in 1..(MaxViewers + 1) : \A f \in WholeFrames :
        [](current_frame = f /\ vpc[v] = "poll" =>
              <>(\/ current_frame # f
                 \/ vpc[v] = "yield" /\ chunk[v] = Encode(f)))

\* ------------------------------------------------------------------ C26
\* C26: whenever stream_video() has returned after connect() succeeded
\* (the socket was connected), stop() has run and the socket is closed, on
\* every path.
C26_StreamVideoAlwaysStops ==
    (cpc = "returned" /\ socket \in {"open", "closed"}) =>
        (stopped /\ socket = "closed")

====
